---- MODULE Spec2Model ----
(***************************************************************************)
(* Model of examples/perovskite_solar_cells/psc_nn.py (PaddleScience):     *)
(* the entry point main, the train() and evaluate() pipelines, the         *)
(* hyperparameter search driven by optuna, define_model, the column-name   *)
(* normalisation and the batch/epoch arithmetic of a training session.     *)
(*                                                                         *)
(* One process run is one call of main(cfg).  The file system outlives a   *)
(* run, so a run may be followed by another run with another cfg.          *)
(***************************************************************************)
EXTENDS Integers, Sequences, FiniteSets, TLC

VARIABLES
    cfg,           \* the DictConfig of the current run: mode, model.input_dim, model.output_dim
    pc,            \* position of the current run in main/train/evaluate
    error,         \* the exception that ended the run and the step that raised it
    called,        \* which of train(), evaluate() main has called in this run
    files,         \* headers of the feature csv files: [train, val], as stored on disk
    X_train_cols,  \* columns of the in-memory X_train
    X_val_cols,    \* columns of the in-memory X_val
    study,         \* optuna study: [n_trials, n_failed, best] (best: <<>> or <<[params, value]>>)
    lowest_value,  \* the lowest value among the completed trials of the study (0: none yet)
    best_params,   \* study.best_trial.params once the search is over (<<>> before)
    hidden_sizes,  \* train(): the list built at lines 194-196
    final_model,   \* train(): <<>> or <<the MLP of the final run>>
    opt,           \* train(): <<>> or <<the optimizer of the final run>>
    final_trained, \* the final solver.train() has returned
    fs,            \* checkpoints/best_model.pdparams on disk: <<>> or <<the bundle>>
    written,       \* the output files this run has written
    ckpt_writes,   \* paddle.save calls on best_model.pdparams in this run
    eval_model,    \* evaluate(): <<>> or <<the MLP rebuilt from the checkpoint>>
    weights_from,  \* evaluate(): <<>> or <<architecture of the state_dict loaded into eval_model>>
    evaluated,     \* solver.eval() has run in this run
    reported,      \* evaluate() has printed RMSE, R2 and MAPE in this run
    dm,            \* a single define_model call: its input and its outcome
    ep,            \* a single training epoch of a session: sizes, iteration, rows seen
    sp,            \* the rows of the training file: the split and the rows each session uses
    wl,            \* a weighted_loss evaluation on a pair of vectors and on the scaled pair
    pl             \* a call of _save_plot_from_2d_array: its arguments and its progress

vars == <<cfg, pc, error, called, files, X_train_cols, X_val_cols, study, lowest_value,
          best_params,
          hidden_sizes, final_model, opt, final_trained, fs, written, ckpt_writes,
          eval_model,
          weights_from, evaluated, reported, dm, ep, sp, wl, pl>>

(***************************************************************************)
(* Bounds of the model and constants of the program.                       *)
(***************************************************************************)
N_TRIALS == 50          \* study.optimize(objective, n_trials=50)
MinLayers == 4          \* suggest_int("n_layers", 4, 6)
MaxLayers == 6
MinUnits == 10          \* suggest_int(f"n_units_l{i}", 10, input_dim // 2)
LrMinExp == -5          \* suggest_float("lr", 1e-5, 1e-1, log=True), as powers of ten
LrMaxExp == -1

MaxScore == 2           \* objective values (RMSE) are drawn from 1..MaxScore
MaxModelDim == 24       \* define_model alone is called with input_dim up to this
MaxNameLen == 2         \* characters of a column name
MaxCols == 2            \* columns of a feature file
MaxRows == 6            \* rows of a training split
MaxBatch == 3           \* TRAIN.batch_size
MaxEpochs == 2          \* TRAIN.epochs
MaxFileRows == 11       \* rows of the training files
EpsilonInv == 1000000   \* 1 / epsilon, epsilon = 1e-06 in weighted_loss
MaxLossLen == 2         \* length of the vectors given to weighted_loss
MaxValue == 2           \* entries of the vectors are drawn from 0..MaxValue
MaxFactor == 2          \* scaling factors are drawn from 1..MaxFactor
MaxKeys == 2            \* length of visu_keys
MaxTimestamp == 2       \* num_timestamp is drawn from 1..MaxTimestamp

Modes == {"train", "eval", "test"}
\* model.input_dim of a run: the values around 2 * MinUnits, the least
\* input_dim for which the width range [MinUnits, input_dim // 2] is not empty.
InputDims == {2 * MinUnits - 1, 2 * MinUnits, 2 * MinUnits + 1}
\* model.output_dim of a run: one target column.
OutputDims == {1}
OptimizerNames == {"Adam", "RMSProp", "SGD"}
\* the learning rates a trial may draw: the two ends of the range.
LrChoices == {LrMinExp, LrMaxExp}
Scores == 1..MaxScore

Configs == [mode : Modes, input_dim : InputDims, output_dim : OutputDims]

(***************************************************************************)
(* optuna: trial.suggest_int(name, low, high) returns an integer of        *)
(* [low, high] and raises ValueError when low > high.  The set of values   *)
(* it may return; the empty set stands for the raise.                      *)
(***************************************************************************)
\* suggest_int with an upper end that is one too high.
suggest_int_past_high(low, high) == IF low > high THEN {} ELSE low..(high + 1)

\* suggest_int that clamps an empty range to its lower end instead of raising.
suggest_int_clamped(low, high) == IF low > high THEN {low} ELSE low..high

suggest_int(low, high) == IF low > high THEN {} ELSE low..high

MLP(hidden_size, input_dim, output_dim) ==
    [hidden_size |-> hidden_size, activation |-> "relu",
     input_dim |-> input_dim, output_dim |-> output_dim]

(***************************************************************************)
(* The loop of define_model, lines 106-109: the lists hidden_sizes can be  *)
(* after n iterations, each appending one suggested width.  An iteration   *)
(* whose suggest_int raises leaves no list.                                *)
(***************************************************************************)
RECURSIVE hidden_size_lists(_, _)
hidden_size_lists(n, units) ==
    IF n = 0 THEN {<<>>}
    ELSE {Append(h, u) : h \in hidden_size_lists(n - 1, units), u \in units}

(***************************************************************************)
(* define_model(trial, input_dim, output_dim) on a live trial: the set of  *)
(* outcomes.  n_layers is suggested first, then one width per layer; a     *)
(* suggest_int that raises ends the call before any MLP is built.          *)
(***************************************************************************)
define_model(input_dim, output_dim) ==
    LET units == suggest_int(MinUnits, input_dim \div 2)
        Raise(n) == [raised |-> "ValueError", n_layers |-> n, model |-> <<>>]
    IN  IF suggest_int(MinLayers, MaxLayers) = {}
        THEN {Raise(0)}
        ELSE UNION {
               IF hidden_size_lists(n, units) = {}
               THEN {Raise(n)}
               ELSE {[raised |-> "none", n_layers |-> n,
                      model |-> <<MLP(hs, input_dim, output_dim)>>] :
                         hs \in hidden_size_lists(n, units)} :
               n \in suggest_int(MinLayers, MaxLayers)}

(***************************************************************************)
(* define_model on study.best_trial (a FrozenTrial): every suggest_int     *)
(* returns the value the trial recorded under that name.                   *)
(***************************************************************************)
define_model_frozen(params, input_dim, output_dim) ==
    MLP([i \in 1..params.n_layers |-> params.units[i]], input_dim, output_dim)

(***************************************************************************)
(* create_optimizer: the optimizer family chosen by name, SGD for any      *)
(* other name, bound to a schedule that starts from lr.                    *)
(***************************************************************************)
create_optimizer(optimizer_name, lr) ==
    [family |-> IF optimizer_name = "Adam" THEN "Adam"
                ELSE IF optimizer_name = "RMSProp" THEN "RMSProp"
                ELSE "SGD",
     learning_rate |-> lr]

(***************************************************************************)
(* objective(trial): the outcomes of one trial.  It raises when            *)
(* define_model raises or when the training session throws; otherwise it  *)
(* returns the RMSE on the verification split, with the parameters the     *)
(* trial recorded.                                                         *)
(***************************************************************************)
objective(input_dim, output_dim) ==
    UNION {
      IF d.raised # "none"
      THEN {[raised |-> d.raised, params |-> <<>>, value |-> 0]}
      ELSE {[raised |-> "RuntimeError", params |-> <<>>, value |-> 0]}
           \cup
           {[raised |-> "none",
             params |-> <<[n_layers |-> d.n_layers,
                           units |-> d.model[1].hidden_size,
                           optimizer |-> o, lr |-> l]>>,
             value |-> v] : o \in OptimizerNames, l \in LrChoices, v \in Scores} :
      d \in define_model(input_dim, output_dim)}

\* objective tabulated over the configured dimensions.
objective_outcomes ==
    [i \in InputDims |-> [o \in OutputDims |-> objective(i, o)]]

(***************************************************************************)
(* optuna study (direction minimize): a completed trial becomes the best   *)
(* trial when no trial completed before it or its value is lower.          *)
(***************************************************************************)
\* A study that keeps the highest value (direction maximize).
tell_maximize(s, params, value) ==
    [n_trials |-> s.n_trials + 1,
     n_failed |-> s.n_failed,
     best |-> IF s.best = <<>> \/ value > s.best[1].value
              THEN <<[params |-> params, value |-> value]>>
              ELSE s.best]

tell(s, params, value) ==
    [n_trials |-> s.n_trials + 1,
     n_failed |-> s.n_failed,
     best |-> IF s.best = <<>> \/ value < s.best[1].value
              THEN <<[params |-> params, value |-> value]>>
              ELSE s.best]

(***************************************************************************)
(* Column names are sequences of characters.  str.replace(old, new)        *)
(* replaces every occurrence of the character.                             *)
(***************************************************************************)
replace(name, old, new) ==
    [i \in 1..Len(name) |-> IF name[i] = old THEN new ELSE name[i]]

has_bracket(col) == \E i \in 1..Len(col) : col[i] \in {"[", "]"}

new_name(col) == replace(replace(col, "[", "("), "]", ")")

\* DataFrame.rename(columns={old: new}): the columns named old get the name
\* new, a frame with no such column is returned as it is.
rename(columns, old, new) ==
    [i \in 1..Len(columns) |-> IF columns[i] = old THEN new ELSE columns[i]]

(***************************************************************************)
(* train(), lines 130-135: the loop runs over the columns X_train had when *)
(* the loop started, from position i on, and renames in both frames.       *)
(***************************************************************************)
RECURSIVE train_normalize(_, _, _, _)
train_normalize(columns, i, xt, xv) ==
    IF i > Len(columns) THEN [X_train |-> xt, X_val |-> xv]
    ELSE IF has_bracket(columns[i])
         THEN train_normalize(columns, i + 1,
                              rename(xt, columns[i], new_name(columns[i])),
                              rename(xv, columns[i], new_name(columns[i])))
         ELSE train_normalize(columns, i + 1, xt, xv)

(***************************************************************************)
(* evaluate(), lines 260-264: the loop runs over the columns of X_val.     *)
(***************************************************************************)
RECURSIVE evaluate_normalize(_, _, _)
evaluate_normalize(columns, i, xv) ==
    IF i > Len(columns) THEN xv
    ELSE IF has_bracket(columns[i])
         THEN evaluate_normalize(columns, i + 1,
                                 rename(xv, columns[i], new_name(columns[i])))
         ELSE evaluate_normalize(columns, i + 1, xv)

NoError == [type |-> "none", at |-> "none"]

(***************************************************************************)
(* The state of a process that has just been started with configuration c. *)
(* What is on disk (files, fs) is as the previous run left it.             *)
(***************************************************************************)
Started(c) ==
    /\ cfg' = c
    /\ pc' = "main"
    /\ error' = NoError
    /\ called' = {}
    /\ X_train_cols' = <<>>
    /\ X_val_cols' = <<>>
    /\ study' = [n_trials |-> 0, n_failed |-> 0, best |-> <<>>]
    /\ lowest_value' = 0
    /\ best_params' = <<>>
    /\ hidden_sizes' = <<>>
    /\ final_model' = <<>>
    /\ opt' = <<>>
    /\ final_trained' = FALSE
    /\ written' = {}
    /\ ckpt_writes' = 0
    /\ eval_model' = <<>>
    /\ weights_from' = <<>>
    /\ evaluated' = FALSE
    /\ reported' = FALSE

units_vars == <<dm, ep, sp, wl, pl>>
data_vars == <<files, X_train_cols, X_val_cols>>
search_vars == <<study, lowest_value, best_params>>
final_vars == <<hidden_sizes, final_model, opt, final_trained>>
out_vars == <<fs, written, ckpt_writes>>
eval_vars == <<eval_model, weights_from, evaluated, reported>>

\* An unhandled exception e leaves main: the process ends.
Raise(e) == pc' = "aborted" /\ error' = [type |-> e, at |-> pc]

(***************************************************************************)
(* A new process is started once the previous one has ended.               *)
(***************************************************************************)
StartRun ==
    /\ pc \in {"done", "aborted"}
    /\ \E c \in Configs : Started(c)
    /\ UNCHANGED <<files, fs, units_vars>>

(***************************************************************************)
(* main(cfg), lines 354-360.                                               *)
(***************************************************************************)
\* main that treats every mode but "train" as "eval".
main_without_else ==
    /\ pc = "main"
    /\ IF cfg.mode = "train"
       THEN pc' = "train_load" /\ called' = called \cup {"train"} /\ error' = error
       ELSE pc' = "eval_load" /\ called' = called \cup {"evaluate"} /\ error' = error
    /\ UNCHANGED <<cfg, data_vars, search_vars, final_vars, out_vars, eval_vars,
                   units_vars>>

main ==
    /\ pc = "main"
    /\ IF cfg.mode = "train"
       THEN pc' = "train_load" /\ called' = called \cup {"train"} /\ error' = error
       ELSE IF cfg.mode = "eval"
            THEN pc' = "eval_load" /\ called' = called \cup {"evaluate"}
                 /\ error' = error
            ELSE Raise("ValueError") /\ called' = called
    /\ UNCHANGED <<cfg, data_vars, search_vars, final_vars, out_vars, eval_vars,
                   units_vars>>

(***************************************************************************)
(* train(), lines 125-142: read the four files, normalise the column       *)
(* names, split off the verification rows.                                 *)
(***************************************************************************)
train_load ==
    /\ pc = "train_load"
    /\ LET r == train_normalize(files.train, 1, files.train, files.val)
       IN  X_train_cols' = r.X_train /\ X_val_cols' = r.X_val
    /\ pc' = "search"
    /\ UNCHANGED <<cfg, error, called, files, search_vars, final_vars, out_vars,
                   eval_vars, units_vars>>

(***************************************************************************)
(* study.optimize(objective, n_trials=50), line 188: one trial.  No catch  *)
(* is given, so an exception of the objective leaves optimize and train.   *)
(***************************************************************************)
\* optimize with catch=(Exception,): a failed trial is recorded and the
\* search goes on.
optimize_trial_catching ==
    /\ pc = "search"
    /\ study.n_trials < N_TRIALS
    /\ \E o \in objective_outcomes[cfg.input_dim][cfg.output_dim] :
          IF o.raised # "none"
          THEN /\ study' = [study EXCEPT !.n_failed = 1, !.n_trials = @ + 1]
               /\ lowest_value' = lowest_value
          ELSE /\ study' = tell(study, o.params[1], o.value)
               /\ lowest_value' = IF lowest_value = 0 \/ o.value < lowest_value
                                  THEN o.value ELSE lowest_value
    /\ UNCHANGED <<pc, error>>
    /\ UNCHANGED <<cfg, called, data_vars, best_params, final_vars, out_vars,
                   eval_vars, units_vars>>

optimize_trial ==
    /\ pc = "search"
    /\ study.n_trials < N_TRIALS
    /\ \E o \in objective_outcomes[cfg.input_dim][cfg.output_dim] :
          IF o.raised # "none"
          THEN /\ Raise(o.raised)
               /\ study' = [study EXCEPT !.n_failed = @ + 1]
               /\ lowest_value' = lowest_value
          ELSE /\ study' = tell(study, o.params[1], o.value)
               /\ lowest_value' = IF lowest_value = 0 \/ o.value < lowest_value
                                  THEN o.value ELSE lowest_value
               /\ UNCHANGED <<pc, error>>
    /\ UNCHANGED <<cfg, called, data_vars, best_params, final_vars, out_vars,
                   eval_vars, units_vars>>

(***************************************************************************)
(* Lines 190-196: the budget is spent; best_params and hidden_sizes.       *)
(***************************************************************************)
best_trial ==
    /\ pc = "search"
    /\ study.n_trials = N_TRIALS
    /\ best_params' = <<study.best[1].params>>
    /\ hidden_sizes' = [i \in 1..study.best[1].params.n_layers |->
                           study.best[1].params.units[i]]
    /\ pc' = "final_build"
    /\ UNCHANGED <<cfg, error, called, data_vars, study, lowest_value, final_model, opt,
                   final_trained, out_vars, eval_vars, units_vars>>

(***************************************************************************)
(* Lines 199-229: the final model, its optimizer and its session.          *)
(***************************************************************************)
\* train() that saves the bundle before the final solver.train().
final_build_then_save ==
    /\ pc = "final_build"
    /\ final_model' = <<define_model_frozen(study.best[1].params, cfg.input_dim,
                                            cfg.output_dim)>>
    /\ opt' = <<create_optimizer(best_params[1].optimizer, best_params[1].lr)>>
    /\ pc' = "save"
    /\ UNCHANGED <<cfg, error, called, data_vars, search_vars, hidden_sizes,
                   final_trained, out_vars, eval_vars, units_vars>>

final_build ==
    /\ pc = "final_build"
    /\ final_model' = <<define_model_frozen(study.best[1].params, cfg.input_dim,
                                            cfg.output_dim)>>
    /\ opt' = <<create_optimizer(best_params[1].optimizer, best_params[1].lr)>>
    /\ pc' = "final_train"
    /\ UNCHANGED <<cfg, error, called, data_vars, search_vars, hidden_sizes,
                   final_trained, out_vars, eval_vars, units_vars>>

(***************************************************************************)
(* Line 231: solver.train() of the final session returns or throws.        *)
(***************************************************************************)
final_train ==
    /\ pc = "final_train"
    /\ \/ final_trained' = TRUE /\ pc' = "save" /\ error' = error
       \/ Raise("RuntimeError") /\ final_trained' = final_trained
    /\ UNCHANGED <<cfg, called, data_vars, search_vars, hidden_sizes, final_model,
                   opt, out_vars, eval_vars, units_vars>>

(***************************************************************************)
(* Lines 234-247: the bundle, saved as checkpoints/best_model.pdparams.    *)
(* state_dict is kept as the architecture whose weights it holds.          *)
(***************************************************************************)
model_dict ==
    [state_dict |-> final_model[1],
     hidden_size |-> hidden_sizes,
     n_layers |-> best_params[1].n_layers,
     optimizer |-> best_params[1].optimizer,
     lr |-> best_params[1].lr]

save ==
    /\ pc = "save"
    /\ fs' = <<model_dict>>
    /\ written' = written \cup {"best_model.pdparams"}
    /\ ckpt_writes' = ckpt_writes + 1
    /\ pc' = "plot_loss"
    /\ UNCHANGED <<cfg, error, called, data_vars, search_vars, final_vars, eval_vars,
                   units_vars>>

(***************************************************************************)
(* Line 249: solver.plot_loss_history writes the loss plot, or fails.      *)
(***************************************************************************)
plot_loss_history ==
    /\ pc = "plot_loss"
    /\ \/ written' = written \cup {"loss.png"} /\ pc' = "train_eval" /\ error' = error
       \/ Raise("IOError") /\ written' = written
    /\ UNCHANGED <<cfg, called, data_vars, search_vars, final_vars, fs, ckpt_writes,
                   eval_vars, units_vars>>

(***************************************************************************)
(* Line 250: solver.eval() on the validation split.                        *)
(***************************************************************************)
train_eval ==
    /\ pc = "train_eval"
    /\ evaluated' = TRUE
    /\ pc' = "visualize"
    /\ UNCHANGED <<cfg, error, called, data_vars, search_vars, final_vars, out_vars,
                   eval_model, weights_from, reported, units_vars>>

(***************************************************************************)
(* visualize_results, lines 323-350, called at line 252 and at line 319:   *)
(* the figure is saved, or savefig raises; nothing catches the exception.  *)
(***************************************************************************)
visualize_results ==
    /\ pc = "visualize"
    /\ \/ written' = written \cup {"jsc_distribution.png"} /\ pc' = "done"
          /\ error' = error
       \/ Raise("IOError") /\ written' = written
    /\ UNCHANGED <<cfg, called, data_vars, search_vars, final_vars, fs, ckpt_writes,
                   eval_vars, units_vars>>

(***************************************************************************)
(* evaluate(), lines 257-264: read the validation files, normalise.        *)
(***************************************************************************)
eval_load ==
    /\ pc = "eval_load"
    /\ X_val_cols' = evaluate_normalize(files.val, 1, files.val)
    /\ pc' = "eval_ckpt"
    /\ UNCHANGED <<cfg, error, called, files, X_train_cols, search_vars, final_vars,
                   out_vars, eval_vars, units_vars>>

(***************************************************************************)
(* evaluate(), lines 267-280: paddle.load of the bundle (it raises when    *)
(* there is none) and the MLP rebuilt from its hidden_size and from cfg.   *)
(***************************************************************************)
eval_build ==
    /\ pc = "eval_ckpt"
    /\ IF fs = <<>>
       THEN Raise("IOError") /\ eval_model' = eval_model
       ELSE /\ eval_model' = <<MLP(fs[1].hidden_size, cfg.input_dim, cfg.output_dim)>>
            /\ pc' = "eval_weights"
            /\ error' = error
    /\ UNCHANGED <<cfg, called, data_vars, search_vars, final_vars, out_vars,
                   weights_from, evaluated, reported, units_vars>>

(***************************************************************************)
(* evaluate(), line 283: model.set_state_dict(model_dict["state_dict"]).   *)
(***************************************************************************)
eval_set_state_dict ==
    /\ pc = "eval_weights"
    /\ weights_from' = <<fs[1].state_dict>>
    /\ pc' = "eval_eval"
    /\ UNCHANGED <<cfg, error, called, data_vars, search_vars, final_vars, out_vars,
                   eval_model, evaluated, reported, units_vars>>

(***************************************************************************)
(* evaluate(), line 300: solver.eval().                                    *)
(***************************************************************************)
eval_eval ==
    /\ pc = "eval_eval"
    /\ evaluated' = TRUE
    /\ pc' = "eval_report"
    /\ UNCHANGED <<cfg, error, called, data_vars, search_vars, final_vars, out_vars,
                   eval_model, weights_from, reported, units_vars>>

(***************************************************************************)
(* evaluate(), lines 303-315: predictions, RMSE, R2 and MAPE printed.      *)
(***************************************************************************)
eval_report ==
    /\ pc = "eval_report"
    /\ reported' = TRUE
    /\ pc' = "visualize"
    /\ UNCHANGED <<cfg, error, called, data_vars, search_vars, final_vars, out_vars,
                   eval_model, weights_from, evaluated, units_vars>>

DefaultFiles ==
    [train |-> << <<"E", "[", "V", "]">>, <<"T">> >>,
     val   |-> << <<"E", "[", "V", "]">>, <<"T">> >>]

NoCall == [input_dim |-> 0, output_dim |-> 0, outcome |-> <<>>]
NoEpoch == [stage |-> "none"]
NoSplit == [stage |-> "none"]
NoLoss == [stage |-> "none"]
NoPlot == [stage |-> "none"]

Init ==
    /\ cfg \in Configs
    /\ pc = "main"
    /\ error = NoError
    /\ called = {}
    /\ files = DefaultFiles
    /\ X_train_cols = <<>>
    /\ X_val_cols = <<>>
    /\ study = [n_trials |-> 0, n_failed |-> 0, best |-> <<>>]
    /\ lowest_value = 0
    /\ best_params = <<>>
    /\ hidden_sizes = <<>>
    /\ final_model = <<>>
    /\ opt = <<>>
    /\ final_trained = FALSE
    /\ fs = <<>>
    /\ written = {}
    /\ ckpt_writes = 0
    /\ eval_model = <<>>
    /\ weights_from = <<>>
    /\ evaluated = FALSE
    /\ reported = FALSE
    /\ dm = NoCall
    /\ ep = NoEpoch
    /\ sp = NoSplit
    /\ wl = NoLoss
    /\ pl = NoPlot

Next ==
    \/ StartRun
    \/ main
    \/ train_load
    \/ optimize_trial
    \/ best_trial
    \/ final_build
    \/ final_train
    \/ save
    \/ plot_loss_history
    \/ train_eval
    \/ visualize_results
    \/ eval_load
    \/ eval_build
    \/ eval_set_state_dict
    \/ eval_eval
    \/ eval_report

Spec == Init /\ [][Next]_vars

(***************************************************************************)
(* The data-loading steps of train() and evaluate() on every pair of       *)
(* feature-file headers within the bounds.  read_csv gives the columns of  *)
(* one frame distinct names.                                               *)
(***************************************************************************)
Alphabet == {"E", "[", "]"}
Names == UNION {[1..n -> Alphabet] : n \in 1..MaxNameLen}
Headers ==
    {h \in UNION {[1..n -> Names] : n \in 1..MaxCols} :
        \A i, j \in 1..Len(h) : h[i] = h[j] => i = j}

InitData ==
    /\ cfg \in {c \in Configs : c.input_dim = 2 * MinUnits}
    /\ files \in [train : Headers, val : Headers]
    /\ pc = "main"
    /\ error = NoError
    /\ called = {}
    /\ X_train_cols = <<>>
    /\ X_val_cols = <<>>
    /\ study = [n_trials |-> 0, n_failed |-> 0, best |-> <<>>]
    /\ lowest_value = 0
    /\ best_params = <<>>
    /\ hidden_sizes = <<>>
    /\ final_model = <<>>
    /\ opt = <<>>
    /\ final_trained = FALSE
    /\ fs = <<>>
    /\ written = {}
    /\ ckpt_writes = 0
    /\ eval_model = <<>>
    /\ weights_from = <<>>
    /\ evaluated = FALSE
    /\ reported = FALSE
    /\ dm = NoCall
    /\ ep = NoEpoch
    /\ sp = NoSplit
    /\ wl = NoLoss
    /\ pl = NoPlot

NextData ==
    \/ main
    \/ train_load
    \/ eval_load

SpecData == InitData /\ [][NextData]_vars

(***************************************************************************)
(* No process is running: the state in which define_model and a training   *)
(* session are exercised on their own.                                     *)
(***************************************************************************)
InitIdle ==
    /\ cfg = [mode |-> "train", input_dim |-> 2 * MinUnits, output_dim |-> 1]
    /\ files = DefaultFiles
    /\ pc = "idle"
    /\ error = NoError
    /\ called = {}
    /\ X_train_cols = <<>>
    /\ X_val_cols = <<>>
    /\ study = [n_trials |-> 0, n_failed |-> 0, best |-> <<>>]
    /\ lowest_value = 0
    /\ best_params = <<>>
    /\ hidden_sizes = <<>>
    /\ final_model = <<>>
    /\ opt = <<>>
    /\ final_trained = FALSE
    /\ fs = <<>>
    /\ written = {}
    /\ ckpt_writes = 0
    /\ eval_model = <<>>
    /\ weights_from = <<>>
    /\ evaluated = FALSE
    /\ reported = FALSE
    /\ dm = NoCall
    /\ ep = NoEpoch
    /\ sp = NoSplit
    /\ wl = NoLoss
    /\ pl = NoPlot

lifecycle_vars ==
    <<cfg, pc, error, called, data_vars, search_vars, final_vars, out_vars, eval_vars>>

(***************************************************************************)
(* One call define_model(trial, input_dim, output_dim) on a live trial.    *)
(***************************************************************************)
call_define_model ==
    /\ dm = NoCall
    /\ \E i \in 1..MaxModelDim, o \in OutputDims :
          \E r \in define_model(i, o) :
             dm' = [input_dim |-> i, output_dim |-> o, outcome |-> <<r>>]
    /\ UNCHANGED <<lifecycle_vars, ep, sp, wl, pl>>

NextModel == call_define_model

SpecModel == InitIdle /\ [][NextModel]_vars

(***************************************************************************)
(* A training session on data_size rows with batch size batch_size.        *)
(* create_constraint asks for a BatchSampler with drop_last False: one     *)
(* pass has a last, partial batch when batch_size does not divide the row  *)
(* count.  Rows are numbered by their place in the pass's (shuffled) order.*)
(***************************************************************************)
num_batches(data_size, batch_size) == (data_size + batch_size - 1) \div batch_size

batch_rows(data_size, batch_size, k) ==
    {r \in 1..data_size : (k - 1) * batch_size < r /\ r <= k * batch_size}

\* len(X_train) // cfg.TRAIN.batch_size, as passed to create_optimizer
\* (line 88) and to Solver (lines 169 and 223).
iters_per_epoch(data_size, batch_size) == data_size \div batch_size

create_session ==
    /\ ep = NoEpoch
    /\ \E n \in 1..MaxRows, b \in 1..MaxBatch, e \in 1..MaxEpochs :
          ep' = [stage |-> "epoch", data_size |-> n, batch_size |-> b, epochs |-> e,
                 schedule_iters |-> iters_per_epoch(n, b),
                 iters_per_epoch |-> iters_per_epoch(n, b),
                 epoch |-> 1, iter |-> 0, cursor |-> 1,
                 seen |-> [r \in 1..n |-> 0]]
    /\ UNCHANGED <<lifecycle_vars, dm, sp, wl, pl>>

\* One iteration of the epoch: the next batch of the data loader, which
\* starts a new pass after the last batch of a pass.
train_iteration ==
    /\ ep # NoEpoch
    /\ ep.stage = "epoch"
    /\ ep.iter < ep.iters_per_epoch
    /\ ep' = [ep EXCEPT
                !.iter = @ + 1,
                !.cursor = (@ % num_batches(ep.data_size, ep.batch_size)) + 1,
                !.seen = [r \in 1..ep.data_size |->
                            IF r \in batch_rows(ep.data_size, ep.batch_size, ep.cursor)
                            THEN @[r] + 1 ELSE @[r]]]
    /\ UNCHANGED <<lifecycle_vars, dm, sp, wl, pl>>

\* The epoch ends after iters_per_epoch iterations.
epoch_end ==
    /\ ep # NoEpoch
    /\ ep.stage = "epoch"
    /\ ep.iter = ep.iters_per_epoch
    /\ ep' = [ep EXCEPT !.stage = "epoch_done"]
    /\ UNCHANGED <<lifecycle_vars, dm, sp, wl, pl>>

\* The next epoch, or the end of solver.train() after the last one.
next_epoch ==
    /\ ep # NoEpoch
    /\ ep.stage = "epoch_done"
    /\ IF ep.epoch < ep.epochs
       THEN ep' = [ep EXCEPT !.stage = "epoch", !.epoch = @ + 1, !.iter = 0,
                             !.seen = [r \in 1..ep.data_size |-> 0]]
       ELSE ep' = [ep EXCEPT !.stage = "trained"]
    /\ UNCHANGED <<lifecycle_vars, dm, sp, wl, pl>>

NextEpoch ==
    \/ create_session
    \/ train_iteration
    \/ epoch_end
    \/ next_epoch

SpecEpoch == InitIdle /\ [][NextEpoch]_vars

(***************************************************************************)
(* The rows train() works on.  Rows are numbered as in the training files. *)
(* train_test_split(X_train, y_train, test_size=0.1, random_state=42)      *)
(* takes ceil(0.1 * n) of the n rows as the verification part and raises   *)
(* ValueError when that leaves no training row; which rows it takes is     *)
(* fixed by the seed and left open here.  Line 137 binds the names X_train *)
(* and y_train to the remaining rows.                                      *)
(***************************************************************************)
n_test(n_samples) == (n_samples + 9) \div 10

train_test_split(rows) ==
    IF Cardinality(rows) - n_test(Cardinality(rows)) = 0
    THEN {}
    ELSE {[X_train |-> rows \ verif, X_verif |-> verif] :
             verif \in {v \in SUBSET rows : Cardinality(v) = n_test(Cardinality(rows))}}

\* Lines 125-142: the training files are read and split.
read_and_split ==
    /\ sp = NoSplit
    /\ \E n \in 1..MaxFileRows :
          IF train_test_split(1..n) = {}
          THEN sp' = [stage |-> "raised", file_rows |-> 1..n]
          ELSE \E r \in train_test_split(1..n) :
                  sp' = [stage |-> "split", file_rows |-> 1..n,
                         X_train |-> r.X_train, X_verif |-> r.X_verif,
                         trial_rows |-> {}, scored_rows |-> {}, final_rows |-> {}]
    /\ UNCHANGED <<lifecycle_vars, dm, ep, wl, pl>>

\* objective, lines 152-183: a trial trains on create_tensor_dict(X_train,
\* y_train) and is scored on the predictions for X_verif.
trial_session ==
    /\ sp.stage = "split"
    /\ sp' = [sp EXCEPT !.stage = "searched",
                        !.trial_rows = sp.X_train, !.scored_rows = sp.X_verif]
    /\ UNCHANGED <<lifecycle_vars, dm, ep, wl, pl>>

\* Lines 210-231: the final session trains on create_tensor_dict(X_train,
\* y_train), with X_train still the name bound at line 137.
final_session ==
    /\ sp.stage = "searched"
    /\ sp' = [sp EXCEPT !.stage = "final", !.final_rows = sp.X_train]
    /\ UNCHANGED <<lifecycle_vars, dm, ep, wl, pl>>

NextSplit ==
    \/ read_and_split
    \/ trial_session
    \/ final_session

SpecSplit == InitIdle /\ [][NextSplit]_vars

(***************************************************************************)
(* weighted_loss(output_dict, target_dict), lines 24-33, in exact          *)
(* arithmetic on integer vectors.  With S = sum(true) and epsilon =        *)
(* 1 / EpsilonInv, weights[i] = true[i] * EpsilonInv / (EpsilonInv * S + 1)*)
(* and loss = EpsilonInv * sum(squared[i] * true[i])                       *)
(*            / ((EpsilonInv * S + 1) * n).                                *)
(* A loss is kept as the fraction [num, den] in lowest terms with          *)
(* loss = EpsilonInv * num / den, so two losses are equal exactly when     *)
(* their records are equal.                                                *)
(***************************************************************************)
RECURSIVE gcd(_, _)
gcd(a, b) == IF b = 0 THEN a ELSE gcd(b, a % b)

RECURSIVE sum_upto(_, _)
sum_upto(v, i) == IF i = 0 THEN 0 ELSE v[i] + sum_upto(v, i - 1)

lowest_terms(num, den) ==
    [num |-> num \div gcd(num, den), den |-> den \div gcd(num, den)]

\* weighted_loss with the difference taken with the wrong sign of pred.
weighted_loss_sign_slip(pred, true) ==
    LET n == Len(true)
        squared == [i \in 1..n |-> (true[i] + pred[i]) * (true[i] + pred[i])]
        weighted_num == [i \in 1..n |-> squared[i] * true[i]]
    IN  lowest_terms(sum_upto(weighted_num, n),
                     (EpsilonInv * sum_upto(true, n) + 1) * n)

weighted_loss(pred, true) ==
    LET n == Len(true)
        squared == [i \in 1..n |-> (true[i] - pred[i]) * (true[i] - pred[i])]
        \* weighted[i] = weighted_num[i] * EpsilonInv / (EpsilonInv * S + 1)
        weighted_num == [i \in 1..n |-> squared[i] * true[i]]
    IN  lowest_terms(sum_upto(weighted_num, n),
                     (EpsilonInv * sum_upto(true, n) + 1) * n)

scaled(k, v) == [i \in 1..Len(v) |-> k * v[i]]

\* weighted_loss on a pair of vectors of equal length and on the pair
\* scaled by k.
evaluate_loss ==
    /\ wl = NoLoss
    /\ \E n \in 1..MaxLossLen, k \in 1..MaxFactor :
          \E pred \in [1..n -> 0..MaxValue], true \in [1..n -> 0..MaxValue] :
             wl' = [stage |-> "done", pred |-> pred, true |-> true, k |-> k,
                    loss |-> weighted_loss(pred, true),
                    scaled_loss |-> weighted_loss(scaled(k, pred), scaled(k, true))]
    /\ UNCHANGED <<lifecycle_vars, dm, ep, sp, pl>>

NextLoss == evaluate_loss

SpecLoss == InitIdle /\ [][NextLoss]_vars

(***************************************************************************)
(* save_plot_from_2d_dict / _save_plot_from_2d_array of                    *)
(* ppsci/visualize/plot.py.  A key is the sequence of the words of its     *)
(* name, so that "target" in key is a search in the key.  xticks and       *)
(* yticks are None, a tuple (the annotated type) or an ndarray; only the   *)
(* ndarray has the methods min() and max().  data_dict holds every key     *)
(* and every array holds at least num_timestamp * stride time steps.       *)
(***************************************************************************)
VisuKeyChoices == {<<"u">>, <<"v">>, <<"target", "u">>}

TickChoices == {"None", "tuple", "ndarray"}

contains_target(key) == \E j \in 1..Len(key) : key[j] = "target"

\* target_flag = any(["target" in key for key in visu_keys])
target_flag(visu_keys) == \E i \in 1..Len(visu_keys) : contains_target(visu_keys[i])

has_min_max(ticks) == ticks = "ndarray"

\* c_lim before any assignment to c_max, c_min (rows are numbered from 1).
Unbound == 0

Panels(p) == (1..Len(p.visu_keys)) \X (0..(p.num_timestamp - 1))

\* The call: the figure is created, the loop over visu_data starts at the
\* first row with c_max, c_min unassigned.
save_plot_from_2d_dict ==
    /\ pl = NoPlot
    /\ \E n \in 1..MaxKeys, num_timestamp \in 1..MaxTimestamp,
          xticks \in TickChoices, yticks \in TickChoices :
          \E visu_keys \in [1..n -> VisuKeyChoices] :
             pl' = [stage |-> "row", visu_keys |-> visu_keys,
                    num_timestamp |-> num_timestamp,
                    xticks |-> xticks, yticks |-> yticks,
                    i |-> 1, t_idx |-> 0, c_lim |-> Unbound,
                    drawn |-> {}, xticks_set |-> {}, yticks_set |-> {},
                    colorbars |-> {}, error |-> "none"]
    /\ UNCHANGED <<lifecycle_vars, dm, ep, sp, wl>>

\* Lines 187-189: c_max, c_min are assigned from row i only when no key
\* holds "target" or key i does; c_lim is the row they were taken from.
set_color_limits ==
    /\ pl.stage = "row"
    /\ pl' = [pl EXCEPT !.stage = "panel", !.t_idx = 0,
                        !.c_lim = IF \/ ~target_flag(pl.visu_keys)
                                     \/ contains_target(pl.visu_keys[pl.i])
                                  THEN pl.i ELSE @]
    /\ UNCHANGED <<lifecycle_vars, dm, ep, sp, wl>>

\* Lines 191-208, one pass of the loop over t_idx.  The arguments of imshow
\* are evaluated in order: extent (xticks.min(), ..., yticks.max()) first,
\* then vmax=c_max, vmin=c_min; set_xticks / set_yticks follow the call.
imshow ==
    /\ pl.stage = "panel"
    /\ IF ~has_min_max(pl.xticks) \/ ~has_min_max(pl.yticks)
       THEN pl' = [pl EXCEPT !.stage = "raised", !.error = "AttributeError"]
       ELSE IF pl.c_lim = Unbound
       THEN pl' = [pl EXCEPT !.stage = "raised", !.error = "UnboundLocalError"]
       ELSE pl' = [pl EXCEPT
                      !.drawn = @ \cup {<<pl.i, pl.t_idx>>},
                      !.xticks_set = IF pl.xticks # "None"
                                     THEN @ \cup {<<pl.i, pl.t_idx>>} ELSE @,
                      !.yticks_set = IF pl.yticks # "None"
                                     THEN @ \cup {<<pl.i, pl.t_idx>>} ELSE @,
                      !.t_idx = IF pl.t_idx + 1 < pl.num_timestamp
                                THEN pl.t_idx + 1 ELSE @,
                      !.stage = IF pl.t_idx + 1 < pl.num_timestamp
                                THEN "panel" ELSE "colorbar"]
    /\ UNCHANGED <<lifecycle_vars, dm, ep, sp, wl>>

\* Lines 210-218: the colour bar of row i, then the next row or savefig.
colorbar ==
    /\ pl.stage = "colorbar"
    /\ pl' = [pl EXCEPT !.colorbars = @ \cup {pl.i},
                        !.i = IF pl.i < Len(pl.visu_keys) THEN pl.i + 1 ELSE @,
                        !.stage = IF pl.i < Len(pl.visu_keys)
                                  THEN "row" ELSE "savefig"]
    /\ UNCHANGED <<lifecycle_vars, dm, ep, sp, wl>>

\* Line 219.
savefig ==
    /\ pl.stage = "savefig"
    /\ pl' = [pl EXCEPT !.stage = "saved"]
    /\ UNCHANGED <<lifecycle_vars, dm, ep, sp, wl>>

NextPlot ==
    \/ save_plot_from_2d_dict
    \/ set_color_limits
    \/ imshow
    \/ colorbar
    \/ savefig

SpecPlot == InitIdle /\ [][NextPlot]_vars

\* The positions of a run inside train() and inside evaluate().
TrainPcs == {"train_load", "search", "final_build", "final_train", "save",
             "plot_loss", "train_eval", "visualize", "done", "aborted"}
EvalPcs == {"eval_load", "eval_ckpt", "eval_weights", "eval_eval", "eval_report",
            "visualize", "done", "aborted"}

(***************************************************************************)
(* C1.  main dispatches on cfg.mode: mode "train" calls train() and never  *)
(* evaluate(), mode "eval" calls evaluate() and never train(), and every   *)
(* other mode ends the run with ValueError before any data is loaded, any  *)
(* trial, training or evaluation is run and any file is written.           *)
(***************************************************************************)
C1_MainDispatch ==
    pc # "main" =>
       /\ cfg.mode = "train" =>
             /\ called = {"train"} /\ pc \in TrainPcs
             /\ eval_model = <<>> /\ weights_from = <<>> /\ ~reported
       /\ cfg.mode = "eval" =>
             /\ called = {"evaluate"} /\ pc \in EvalPcs
             /\ X_train_cols = <<>> /\ study.n_trials = 0 /\ study.n_failed = 0
             /\ final_model = <<>> /\ ~final_trained /\ ckpt_writes = 0
       /\ cfg.mode \notin {"train", "eval"} =>
             /\ called = {} /\ pc = "aborted"
             /\ error = [type |-> "ValueError", at |-> "main"]
             /\ X_train_cols = <<>> /\ X_val_cols = <<>>
             /\ study.n_trials = 0 /\ study.n_failed = 0
             /\ final_model = <<>> /\ ~final_trained
             /\ eval_model = <<>> /\ ~evaluated /\ ~reported
             /\ written = {} /\ ckpt_writes = 0

\* A run with an unrecognised mode has ended, after a run that left a checkpoint.
C1_Witness ==
    cfg.mode = "test" /\ pc = "aborted" /\ error.type = "ValueError" /\ fs # <<>>

\* The successive positions of train().
TrainOrder ==
    {<<"main", "train_load">>, <<"train_load", "search">>,
     <<"search", "final_build">>, <<"final_build", "final_train">>,
     <<"final_train", "save">>, <<"save", "plot_loss">>,
     <<"plot_loss", "train_eval">>, <<"train_eval", "visualize">>,
     <<"visualize", "done">>}

C3_BestTrialChosen ==
    (cfg.mode = "train" /\ best_params # <<>>) =>
       /\ study.n_trials = 50
       /\ study.best # <<>>
       /\ study.best[1].value = lowest_value
       /\ best_params[1] = study.best[1].params
       /\ final_model # <<>> =>
             /\ final_model[1].hidden_size = study.best[1].params.units
             /\ Len(final_model[1].hidden_size) = study.best[1].params.n_layers
       /\ opt # <<>> =>
             /\ opt[1].family = study.best[1].params.optimizer
             /\ opt[1].learning_rate = study.best[1].params.lr

\* The final session is about to train on a 5-layer RMSProp trial that
\* scored the lowest value.
C3_Witness ==
    /\ pc = "final_train" /\ opt # <<>> /\ final_model # <<>>
    /\ lowest_value = 1 /\ study.best[1].value = 1
    /\ study.best[1].params.optimizer = "RMSProp"
    /\ study.best[1].params.n_layers = 5
    /\ study.best[1].params.lr = LrMinExp

(***************************************************************************)
(* C4.  A trial that throws ends the process: the study holds at most one  *)
(* failed trial, and once it holds one the run is aborted with the error,  *)
(* no final model was built or trained and nothing was written.            *)
(***************************************************************************)
C4_TrialFailureAborts ==
    study.n_failed > 0 =>
       /\ study.n_failed = 1
       /\ pc = "aborted" /\ error.type # "none" /\ error.at = "search"
       /\ best_params = <<>> /\ final_model = <<>> /\ opt = <<>>
       /\ ~final_trained /\ ckpt_writes = 0 /\ written = {}

\* The eighth trial threw in training, after seven completed trials.
C4_Witness ==
    /\ study.n_failed = 1 /\ study.n_trials = 7 /\ pc = "aborted"
    /\ error = [type |-> "RuntimeError", at |-> "search"]

(***************************************************************************)
(* C5.  Checkpoint round trip: the bundle on disk holds a hidden_size list *)
(* of n_layers entries that are the hidden widths of the model whose       *)
(* weights it holds, and the model evaluate() rebuilds from the bundle has *)
(* the configuration (hidden widths, activation, input and output          *)
(* dimensionality) of the model that produced the stored weights.          *)
(***************************************************************************)
C5_CheckpointRoundTrip ==
    /\ fs # <<>> =>
          /\ Len(fs[1].hidden_size) = fs[1].n_layers
          /\ fs[1].hidden_size = fs[1].state_dict.hidden_size
    /\ eval_model # <<>> => eval_model[1] = fs[1].state_dict

(***************************************************************************)
(* C6.  A failure of the result visualization does not turn a computed     *)
(* result into a failed run: when visualize_results starts, train mode has *)
(* written the checkpoint and run the evaluation and eval mode has         *)
(* reported its metrics, and no run ends with an error raised by           *)
(* visualize_results.                                                      *)
(***************************************************************************)
C6_VisualizationFailureKeepsResult ==
    /\ pc = "visualize" =>
          /\ cfg.mode = "train" => ckpt_writes = 1 /\ evaluated
          /\ cfg.mode = "eval" => reported
    /\ ~(pc = "aborted" /\ error.at = "visualize")

(***************************************************************************)
(* C7.  For every input_dim with input_dim // 2 >= 10, every outcome of    *)
(* define_model is a network: its n_layers is in [4, 6], its hidden-width  *)
(* list has n_layers entries and every width is in [10, input_dim // 2].   *)
(***************************************************************************)
C7_DefineModelRanges ==
    (dm.outcome # <<>> /\ dm.input_dim \div 2 >= 10) =>
       LET r == dm.outcome[1]
       IN  /\ r.raised = "none"
           /\ r.model # <<>>
           /\ r.n_layers \in 4..6
           /\ Len(r.model[1].hidden_size) = r.n_layers
           /\ \A i \in 1..Len(r.model[1].hidden_size) :
                 /\ r.model[1].hidden_size[i] >= 10
                 /\ r.model[1].hidden_size[i] <= dm.input_dim \div 2
           /\ r.model[1].input_dim = dm.input_dim
           /\ r.model[1].output_dim = dm.output_dim

\* A 6-layer network for input_dim 24 that uses both ends of [10, 12].
C7_Witness ==
    /\ dm.outcome # <<>> /\ dm.input_dim = 24
    /\ dm.outcome[1].raised = "none" /\ dm.outcome[1].n_layers = 6
    /\ dm.outcome[1].model[1].hidden_size[1] = 10
    /\ dm.outcome[1].model[1].hidden_size[6] = 12

(***************************************************************************)
(* C8.  For every input_dim with input_dim // 2 < 10, define_model ends    *)
(* with ValueError and builds no model.                                    *)
(***************************************************************************)
C8_InvalidRangeFailsFast ==
    (dm.outcome # <<>> /\ dm.input_dim \div 2 < 10) =>
       /\ dm.outcome[1].raised = "ValueError"
       /\ dm.outcome[1].model = <<>>

\* define_model was called with input_dim 19 (19 // 2 = 9) and raised.
C8_Witness ==
    /\ dm.outcome # <<>> /\ dm.input_dim = 19
    /\ dm.outcome[1].raised = "ValueError" /\ dm.outcome[1].model = <<>>

\* frame holds the names of header with every bracket replaced.
Normalized(frame, header) ==
    /\ Len(frame) = Len(header)
    /\ \A i \in 1..Len(header) :
          /\ Len(frame[i]) = Len(header[i])
          /\ \A k \in 1..Len(header[i]) :
                frame[i][k] = CASE header[i][k] = "[" -> "("
                                [] header[i][k] = "]" -> ")"
                                [] OTHER -> header[i][k]

(***************************************************************************)
(* C9.  Column-name normalisation: once train() has loaded its data, every *)
(* column of X_train and of X_val is the column of the file with each "["  *)
(* replaced by "(" and each "]" by ")" and every other character kept (so  *)
(* a name without bracket is unaltered); the same holds of X_val once      *)
(* evaluate() has loaded its data.                                         *)
(***************************************************************************)
C9_ColumnNormalization ==
    /\ pc = "search" => /\ Normalized(X_train_cols, files.train)
                        /\ Normalized(X_val_cols, files.val)
    /\ pc = "eval_ckpt" => Normalized(X_val_cols, files.val)

(***************************************************************************)
(* C10.  An epoch is one full pass: when an epoch of a session ends, every *)
(* row of the training split has been in exactly one batch of the epoch,   *)
(* and the learning-rate schedule was built for the number of iterations   *)
(* the epoch ran.                                                          *)
(***************************************************************************)
C10_EpochIsFullPass ==
    ep.stage = "epoch_done" =>
       /\ \A r \in 1..ep.data_size : ep.seen[r] = 1
       /\ ep.schedule_iters = ep.iter

(***************************************************************************)
(* C11.  The final training run is a full-data run: the rows the final     *)
(* model is trained on are all the rows of the training files, while a     *)
(* search trial trains on the rows left after the verification rows are    *)
(* taken out and is scored on the verification rows only, the two sets     *)
(* being disjoint.                                                         *)
(***************************************************************************)
C11_FinalRunOnFullData ==
    sp.stage = "final" =>
       /\ sp.final_rows = sp.file_rows
       /\ sp.trial_rows = sp.file_rows \ sp.X_verif
       /\ sp.scored_rows = sp.X_verif
       /\ sp.trial_rows \cap sp.scored_rows = {}

(***************************************************************************)
(* C12, as claimed.  weighted_loss is invariant under identical positive   *)
(* scaling of both vectors, weighted_loss(k*pred, k*true) =                *)
(* weighted_loss(pred, true), and it is 0 whenever pred equals true.       *)
(***************************************************************************)
C12_ScaleInvariant ==
    wl.stage = "done" =>
       /\ wl.scaled_loss = wl.loss
       /\ wl.pred = wl.true => wl.loss.num = 0

(***************************************************************************)
(* C12, amended.  weighted_loss is 0 whenever pred equals true, and more   *)
(* precisely exactly when pred[i] = true[i] at every i with true[i] > 0;   *)
(* it is not invariant under scaling: weighted_loss(k*pred, k*true) equals *)
(* weighted_loss(pred, true) exactly when k = 1 or the loss is 0.          *)
(***************************************************************************)
C12_ZeroOnEqualNotScaleInvariant ==
    wl.stage = "done" =>
       /\ wl.pred = wl.true => wl.loss.num = 0
       /\ wl.loss.num = 0 <=>
             \A i \in 1..Len(wl.true) : wl.true[i] = 0 \/ wl.pred[i] = wl.true[i]
       /\ wl.scaled_loss = wl.loss <=> (wl.k = 1 \/ wl.loss.num = 0)

\* A non-zero loss that changes when both vectors are doubled.
C12_Witness ==
    /\ wl.stage = "done" /\ wl.k = 2
    /\ wl.true = <<1, 2>> /\ wl.pred = <<0, 0>>
    /\ wl.loss.num > 0 /\ wl.scaled_loss # wl.loss

(***************************************************************************)
(* C13.  In save_plot_from_2d_dict / _save_plot_from_2d_array xticks and   *)
(* yticks are optional: when either is None the call raises nothing,       *)
(* renders every (key, timestamp) panel and saves the figure, skipping     *)
(* only the setting of the corresponding tick locations; and for every     *)
(* ordering of visu_keys the colour limits are assigned before a panel is  *)
(* drawn.                                                                  *)
(***************************************************************************)
C13_OptionalTicksAndColourLimits ==
    /\ (pl.stage = "raised" /\ pl.error = "AttributeError") =>
          (pl.xticks # "None" /\ pl.yticks # "None")
    /\ pl.stage = "panel" => pl.c_lim # Unbound
    /\ pl.stage = "raised" => pl.error # "UnboundLocalError"
    /\ pl.stage = "saved" =>
          /\ pl.drawn = Panels(pl)
          /\ pl.xticks_set = (IF pl.xticks = "None" THEN {} ELSE Panels(pl))
          /\ pl.yticks_set = (IF pl.yticks = "None" THEN {} ELSE Panels(pl))

====
